---- MODULE Spec2Model ----
(***************************************************************************)
(* Model of src/server.py: the report-reading tools (run_pmd_analysis,     *)
(* get_quality_dashboard, get_missing_coverage, get_test_failures) and the *)
(* boundary-value generator (generate_bva_test_cases).                     *)
(*                                                                         *)
(* Text is modelled as a sequence of one-character strings, so that        *)
(* str.lower, str.strip, str.split, str.replace, int() and re.findall are  *)
(* computed character by character.  An absent XML attribute (Python None) *)
(* is the distinguished sequence None.                                     *)
(***************************************************************************)
EXTENDS Integers, Sequences, FiniteSets, TLC

VARIABLES pc, args, result,
          total_tests, total_failures, total_errors, total_skipped, total_passed,
          line_coverage, branch_coverage, method_coverage,
          missing_coverage, uncovered_lines,
          failures, skipped_files,
          violations

dashVars == <<total_tests, total_failures, total_errors, total_skipped, total_passed,
              line_coverage, branch_coverage, method_coverage>>
covVars == <<missing_coverage, uncovered_lines>>
tfVars == <<failures, skipped_files>>
vars == <<pc, args, result, dashVars, covVars, tfVars, violations>>

----------------------------------------------------------------------------
(* Bounds of the model *)
MaxConstraintLen == 3
MaxReportFiles == 2
MaxCounters == 2
MaxPackages == 2
MaxClasses == 2
MaxLines == 2
MaxSuiteFiles == 2
MaxCaseElements == 4
MaxExtraViolations == 2
MaxPmdFiles == 2

----------------------------------------------------------------------------
(* Text helpers *)

None == <<"<None>">>

Range(s) == {s[i] : i \in 1..Len(s)}

Digits == {"0", "1", "2", "3", "4", "5", "6", "7", "8", "9"}

DigitValue(c) ==
    CASE c = "0" -> 0 [] c = "1" -> 1 [] c = "2" -> 2 [] c = "3" -> 3 [] c = "4" -> 4
      [] c = "5" -> 5 [] c = "6" -> 6 [] c = "7" -> 7 [] c = "8" -> 8 [] c = "9" -> 9

UpperToLower ==
    [c \in {"A", "D", "E", "F", "I", "L", "M", "O", "P", "R", "T", "U"} |->
        CASE c = "A" -> "a" [] c = "D" -> "d" [] c = "E" -> "e" [] c = "F" -> "f"
          [] c = "I" -> "i" [] c = "L" -> "l" [] c = "M" -> "m" [] c = "O" -> "o"
          [] c = "P" -> "p" [] c = "R" -> "r" [] c = "T" -> "t" [] c = "U" -> "u"]

LowerChar(c) == IF c \in DOMAIN UpperToLower THEN UpperToLower[c] ELSE c

\* str.lower()
Lower_caseSensitive(s) == s

Lower(s) == [i \in 1..Len(s) |-> LowerChar(s[i])]

\* sub in s
Contains(sub, s) ==
    \E i \in 1..(Len(s) - Len(sub) + 1) : SubSeq(s, i, i + Len(sub) - 1) = sub

Whitespace == {" "}

\* The word characters of the regular expression engine (\w): letters, digits, underscore
IsWordChar(c) == c \notin (Whitespace \cup {"-", "/", ".", "$"})

\* int() of a run of decimal digits
RECURSIVE DigitsToInt(_)
DigitsToInt(s) ==
    IF s = <<>> THEN 0
    ELSE 10 * DigitsToInt(SubSeq(s, 1, Len(s) - 1)) + DigitValue(s[Len(s)])

\* int(text), for text without blanks or underscores: an optional sign followed
\* by one or more digits; anything else raises ValueError, modelled as the
\* result [ok |-> FALSE].
ParseInt(s) ==
    LET body == IF s # <<>> /\ s[1] \in {"-", "+"} THEN Tail(s) ELSE s
        neg == s # <<>> /\ s[1] = "-"
    IN IF body # <<>> /\ \A i \in 1..Len(body) : body[i] \in Digits
       THEN [ok |-> TRUE, v |-> IF neg THEN 0 - DigitsToInt(body) ELSE DigitsToInt(body)]
       ELSE [ok |-> FALSE, v |-> 0]

\* int(elem.get(attr, 0)): an absent attribute gives int(0) = 0
ParseIntDefault0(a) == IF a = None THEN [ok |-> TRUE, v |-> 0] ELSE ParseInt(a)

\* list(dict.fromkeys(values)): duplicates removed, first occurrence kept
RECURSIVE FromKeysAcc(_, _)
FromKeysAcc(values, acc) ==
    IF values = <<>> THEN acc
    ELSE FromKeysAcc(Tail(values),
                     IF Head(values) \in Range(acc) THEN acc ELSE Append(acc, Head(values)))

FromKeys_keepDuplicates(values) == values

FromKeys(values) == FromKeysAcc(values, <<>>)

----------------------------------------------------------------------------
(* generate_bva_test_cases *)

JAVA_INT_MAX == 2147483647
JAVA_INT_MIN == (0 - 2147483647) - 1

\* The values of a result list: Python ints, strings, None and booleans,
\* tagged so that values of different Python types are comparable.
IntV(n) == [k |-> "int", n |-> n, s |-> ""]
StrV(t) == [k |-> "str", n |-> 0, s |-> t]
NoneV == [k |-> "none", n |-> 0, s |-> ""]
BoolV(b) == [k |-> "bool", n |-> IF b THEN 1 ELSE 0, s |-> ""]

\* "a" * 1000
LongString == "a*1000"

DefaultWord == <<"d", "e", "f", "a", "u", "l", "t">>
ToIntWord == <<"t", "o", "i", "n", "t">>
ParseWord == <<"p", "a", "r", "s", "e">>

\* re.findall(r'\b\d+\b', text): scanning from position i, the matches in text order.
\* A match starts at a digit that follows a non-word character (or the start),
\* takes the whole run of digits, and must be followed by a non-word character
\* (or the end): a shorter run ends before a digit, where there is no boundary.
RECURSIVE FindAllFrom(_, _)
FindAllFrom(text, i) ==
    IF i > Len(text) THEN <<>>
    ELSE LET startsHere == /\ text[i] \in Digits
                           /\ (i = 1 \/ ~IsWordChar(text[i - 1]))
             runEnd == CHOOSE j \in i..Len(text) :
                           /\ \A m \in i..j : text[m] \in Digits
                           /\ (j = Len(text) \/ text[j + 1] \notin Digits)
         IN IF startsHere /\ (runEnd = Len(text) \/ ~IsWordChar(text[runEnd + 1]))
            THEN <<SubSeq(text, i, runEnd)>> \o FindAllFrom(text, runEnd + 1)
            ELSE FindAllFrom(text, i + 1)

FindAllNumbers(text) == FindAllFrom(text, 1)

\* for num in numbers: values.extend([num - 1, num, num + 1])
RECURSIVE ExtendWithNumbers(_, _)
ExtendWithNumbers(values, numbers) ==
    IF numbers = <<>> THEN values
    ELSE ExtendWithNumbers(
            values \o <<IntV(Head(numbers) - 1), IntV(Head(numbers)), IntV(Head(numbers) + 1)>>,
            Tail(numbers))

IntBase == <<IntV(0), IntV(1), IntV(-1), IntV(JAVA_INT_MAX), IntV(JAVA_INT_MIN)>>

StringBase == <<NoneV, StrV(""), StrV(" "), StrV(LongString)>>

ParseBoundaries ==
    <<NoneV, StrV(""), StrV(" "), StrV("0"), StrV("1"), StrV("-1"),
      StrV("2147483647"), StrV("-2147483648"), StrV("2147483648"), StrV("-2147483649"),
      StrV("abc")>>

generate_bva_test_cases_booleanAugmented(param_name, param_type, function_name, constraints) ==
    IF Contains(DefaultWord, Lower(param_name))
    THEN <<IntV(0), IntV(1), IntV(-1)>>
    ELSE IF param_type = "String"
            /\ (Contains(ToIntWord, Lower(function_name))
                \/ Contains(ParseWord, Lower(function_name)))
    THEN ParseBoundaries
    ELSE LET values == IF param_type \in {"int", "long"} THEN IntBase
                       ELSE IF param_type = "String" THEN StringBase
                       ELSE IF param_type = "boolean" THEN <<BoolV(TRUE), BoolV(FALSE)>>
                       ELSE <<>>
             found == FindAllNumbers(Lower(constraints))
             numbers == [i \in 1..Len(found) |-> DigitsToInt(found[i])]
         IN FromKeys(ExtendWithNumbers(values, numbers))

generate_bva_test_cases(param_name, param_type, function_name, constraints) ==
    IF Contains(DefaultWord, Lower(param_name))
    THEN <<IntV(0), IntV(1), IntV(-1)>>
    ELSE IF param_type = "String"
            /\ (Contains(ToIntWord, Lower(function_name))
                \/ Contains(ParseWord, Lower(function_name)))
    THEN ParseBoundaries
    ELSE IF param_type = "boolean"
    THEN <<BoolV(TRUE), BoolV(FALSE)>>
    ELSE LET values == IF param_type \in {"int", "long"} THEN IntBase
                       ELSE IF param_type = "String" THEN StringBase
                       ELSE <<>>
             found == FindAllNumbers(Lower(constraints))
             numbers == [i \in 1..Len(found) |-> DigitsToInt(found[i])]
         IN FromKeys(ExtendWithNumbers(values, numbers))

\* Inputs of the generator
ParamNames ==
    { <<"c", "o", "u", "n", "t">>,
      <<"m", "y", "D", "e", "f", "a", "u", "l", "t">>,
      <<"D", "E", "F", "A", "U", "L", "T">>,
      <<"d", "e", "f", "a", "l", "t">> }

ParamTypes == {"int", "long", "String", "boolean", "double"}

FunctionNames ==
    { <<"s", "e", "t">>,
      <<"P", "a", "r", "s", "e">>,
      <<"s", "T", "o", "I", "n", "t">> }

ConstraintChars == {"0", "1", "7", " ", "M", "-"}

RECURSIVE TextsUpTo(_, _)
TextsUpTo(chars, n) ==
    IF n = 0 THEN {<<>>}
    ELSE LET shorter == TextsUpTo(chars, n - 1)
         IN shorter \cup {Append(t, c) : t \in shorter, c \in chars}

ConstraintTexts == TextsUpTo(ConstraintChars, MaxConstraintLen)

BvaCall ==
    /\ pc = "idle"
    /\ \E param_name \in ParamNames, param_type \in ParamTypes,
          function_name \in FunctionNames, constraints \in ConstraintTexts :
          /\ args' = [param_name |-> param_name, param_type |-> param_type,
                      function_name |-> function_name, constraints |-> constraints]
          /\ result' = generate_bva_test_cases(param_name, param_type, function_name, constraints)
    /\ pc' = "bva_done"
    /\ UNCHANGED <<dashVars, covVars, tfVars, violations>>

----------------------------------------------------------------------------
(* get_quality_dashboard *)


\* The values a count attribute of a <testsuite> element takes: absent, a
\* positive or negative whole number, or text that is no number
SuiteAttrs == {None, <<"1">>, <<"-", "1">>, <<"x">>}

\* The root element of a report file that parses
SuiteRoots ==
    [parses : {TRUE}, tests : SuiteAttrs, failures : SuiteAttrs, errors : SuiteAttrs,
     skipped : SuiteAttrs]

\* A report file the XML parser rejects (ET.ParseError)
MalformedReport ==
    [parses |-> FALSE, tests |-> None, failures |-> None, errors |-> None, skipped |-> None]

ReportFiles == {MalformedReport} \cup SuiteRoots

CounterTypes == {"LINE", "BRANCH", "METHOD", "INSTRUCTION"}

\* The missed and covered attributes of a <counter> element: absent, whole
\* numbers (also negative ones), or text that is no number
CounterCounts ==
    { <<None, None>>, <<<<"1">>, <<"2">>>>, <<<<"1">>, None>>, <<<<"-", "1">>, <<"2">>>>,
      <<<<"2">>, <<"-", "1">>>>, <<<<"x">>, <<"1">>>>, <<<<"1">>, <<"x">>>> }

Counters ==
    {[type |-> t, missed |-> c[1], covered |-> c[2]] : t \in CounterTypes, c \in CounterCounts}

\* total_tests - (total_failures + total_errors + total_skipped)
Passed_clamped(tests, failed, errored, skipped) ==
    IF tests - (failed + errored + skipped) < 0 THEN 0 ELSE tests - (failed + errored + skipped)

Passed(tests, failed, errored, skipped) == tests - (failed + errored + skipped)

\* round(n / d, 0) for d > 0: the nearest integer, a tie going to the even one
RoundHalfEven(n, d) ==
    LET q == n \div d
        r == n % d
    IN IF 2 * r < d THEN q
       ELSE IF 2 * r > d THEN q + 1
       ELSE IF q % 2 = 0 THEN q ELSE q + 1

\* Percentages are kept in hundredths of a percent: 100.0 is 10000, 33.33 is 3333.
\* round((covered / total) * 100 if total > 0 else 100.0, 2)
Percentage(missed, covered) ==
    LET total == missed + covered
    IN IF total > 0 THEN RoundHalfEven(covered * 10000, total) ELSE 10000

Dashboard ==
    [kind |-> "dashboard",
     test_run_summary |->
        [total_tests |-> total_tests, passed |-> total_passed, failures |-> total_failures,
         errors |-> total_errors, skipped |-> total_skipped],
     code_coverage_summary |->
        [line_coverage_percent |-> line_coverage,
         branch_coverage_percent |-> branch_coverage,
         method_coverage_percent |-> method_coverage]]

\* An exception that leaves the tool function
Raised(exc) == [kind |-> "raised", exception |-> exc]

covUnchanged == UNCHANGED <<line_coverage, branch_coverage, method_coverage>>
totalsUnchanged == UNCHANGED <<total_tests, total_failures, total_errors, total_skipped>>

\* Entry: the totals are zero; os.path.exists(surefire_dir) decides whether files are read
DashCall ==
    /\ pc = "idle"
    /\ \E surefire_exists \in BOOLEAN :
          args' = [surefire_exists |-> surefire_exists, files |-> 0, counters |-> 0]
    /\ pc' = "dash_files"
    /\ UNCHANGED <<result, dashVars, covVars, tfVars, violations>>

\* One iteration of the loop over TEST-*.xml: a malformed file is skipped; the
\* four attributes are converted and added in order, and a ValueError of int()
\* leaves the function with the earlier additions made.
DashReportFile ==
    /\ pc = "dash_files"
    /\ args.surefire_exists
    /\ args.files < MaxReportFiles
    /\ \E file \in ReportFiles :
          IF ~file.parses
          THEN /\ pc' = pc
               /\ UNCHANGED <<result, total_tests, total_failures, total_errors, total_skipped>>
          ELSE LET t == ParseIntDefault0(file.tests)
                   f == ParseIntDefault0(file.failures)
                   e == ParseIntDefault0(file.errors)
                   k == ParseIntDefault0(file.skipped)
                   allOk == t.ok /\ f.ok /\ e.ok /\ k.ok
               IN /\ total_tests' = IF t.ok THEN total_tests + t.v ELSE total_tests
                  /\ total_failures' = IF t.ok /\ f.ok THEN total_failures + f.v
                                       ELSE total_failures
                  /\ total_errors' = IF t.ok /\ f.ok /\ e.ok THEN total_errors + e.v
                                     ELSE total_errors
                  /\ total_skipped' = IF allOk THEN total_skipped + k.v ELSE total_skipped
                  /\ pc' = IF allOk THEN pc ELSE "dash_raised"
                  /\ result' = IF allOk THEN result ELSE Raised("ValueError")
    /\ args' = [args EXCEPT !.files = @ + 1]
    /\ UNCHANGED <<total_passed, covVars, tfVars, violations>>
    /\ covUnchanged

\* After the loop (or when the directory does not exist): total_passed
DashEndFiles ==
    /\ pc = "dash_files"
    /\ total_passed' = Passed(total_tests, total_failures, total_errors, total_skipped)
    /\ pc' = "dash_jacoco"
    /\ UNCHANGED <<args, result, covVars, tfVars, violations>>
    /\ totalsUnchanged
    /\ covUnchanged

\* The coverage report: absent or malformed leaves the percentages 0.0 and the
\* dashboard is returned; otherwise the top-level counters are read.
DashJacoco ==
    /\ pc = "dash_jacoco"
    /\ \E jacoco \in {"missing", "malformed", "parsed"} :
          IF jacoco = "parsed"
          THEN pc' = "dash_counters" /\ result' = result
          ELSE pc' = "dash_done" /\ result' = Dashboard
    /\ UNCHANGED <<args, dashVars, covVars, tfVars, violations>>

\* One iteration of the loop over root.findall('counter')
DashCounter ==
    /\ pc = "dash_counters"
    /\ args.counters < MaxCounters
    /\ \E counter \in Counters :
          LET missed == ParseIntDefault0(counter.missed)
              covered == ParseIntDefault0(counter.covered)
              percentage == Percentage(missed.v, covered.v)
          IN IF missed.ok /\ covered.ok
             THEN /\ line_coverage' = IF counter.type = "LINE" THEN percentage
                                      ELSE line_coverage
                  /\ branch_coverage' = IF counter.type = "BRANCH" THEN percentage
                                        ELSE branch_coverage
                  /\ method_coverage' = IF counter.type = "METHOD" THEN percentage
                                        ELSE method_coverage
                  /\ pc' = pc
                  /\ result' = result
             ELSE /\ pc' = "dash_raised"
                  /\ result' = Raised("ValueError")
                  /\ covUnchanged
    /\ args' = [args EXCEPT !.counters = @ + 1]
    /\ UNCHANGED <<total_passed, covVars, tfVars, violations>>
    /\ totalsUnchanged

\* return {"test_run_summary": ..., "code_coverage_summary": ...}
DashReturn ==
    /\ pc = "dash_counters"
    /\ result' = Dashboard
    /\ pc' = "dash_done"
    /\ UNCHANGED <<args, dashVars, covVars, tfVars, violations>>

----------------------------------------------------------------------------
(* get_missing_coverage *)

ErrorResult(msg) == [kind |-> "error", error |-> msg]
StatusResult(msg) == [kind |-> "status", status |-> msg]

PackageNames == {None, <<"p", "/", "q">>}

ClassNames == {None, <<"p", "/", "q", "/", "A">>, <<"B">>}

\* The mi and nr attributes of a <line> element
LineElements ==
    { [mi |-> <<"1">>, nr |-> <<"1">>], [mi |-> <<"1">>, nr |-> <<"2">>],
      [mi |-> <<"0">>, nr |-> <<"1">>], [mi |-> None, nr |-> <<"1">>],
      [mi |-> <<"1">>, nr |-> None], [mi |-> <<"x">>, nr |-> <<"1">>],
      [mi |-> <<"1">>, nr |-> <<"x">>], [mi |-> <<"0">>, nr |-> <<"x">>] }

\* package_name.replace('/', '.')
ReplaceSlashByDot(s) == [i \in 1..Len(s) |-> IF s[i] = "/" THEN "." ELSE s[i]]

\* class_name.split('/')[-1]: the text after the last '/'
LastSegment(s) ==
    LET slashes == {i \in 1..Len(s) : s[i] = "/"}
        last == IF slashes = {} THEN 0 ELSE CHOOSE i \in slashes : \A j \in slashes : j <= i
    IN SubSeq(s, last + 1, Len(s))

\* f"{package_name.replace('/', '.')}.{class_name.split('/')[-1]}"
FullClassName(package_name, class_name) ==
    ReplaceSlashByDot(package_name) \o <<".">> \o LastSegment(class_name)

\* sorted(list(set(lines)))
RECURSIVE SortedSetAcc(_, _)
SortedSetAcc(S, acc) ==
    IF S = {} THEN acc
    ELSE LET m == CHOOSE x \in S : \A y \in S : x <= y
         IN SortedSetAcc(S \ {m}, Append(acc, m))

SortedSet_keepOrder(lines) == lines

SortedSet(lines) == SortedSetAcc(Range(lines), <<>>)

\* mapping[key] = value on a dict kept as a sequence of entries in insertion
\* order: an existing key has its value replaced in place
DictSet(mapping, key, value) ==
    IF \E i \in 1..Len(mapping) : mapping[i].key = key
    THEN [i \in 1..Len(mapping) |->
            IF mapping[i].key = key THEN [key |-> key, lines |-> value] ELSE mapping[i]]
    ELSE Append(mapping, [key |-> key, lines |-> value])

\* The package and the class being read: the last ones of the document so far
CurrentPackage == args.packages[Len(args.packages)]
CurrentClass == CurrentPackage.classes[Len(CurrentPackage.classes)]

RECURSIVE SumLens(_)
SumLens(seqs) == IF seqs = <<>> THEN 0 ELSE Len(Head(seqs)) + SumLens(Tail(seqs))

ClassesRead == SumLens([i \in 1..Len(args.packages) |-> args.packages[i].classes])
LinesRead ==
    SumLens([i \in 1..Len(args.packages) |->
                [j \in 1..SumLens([c \in 1..Len(args.packages[i].classes) |->
                                      args.packages[i].classes[c].lines]) |-> 0]])

\* Entry: a missing report and a malformed report each return an error value
CovCall ==
    /\ pc = "idle"
    /\ \E report \in {"missing", "malformed", "parsed"} :
          /\ args' = [report |-> report, packages |-> <<>>]
          /\ IF report = "missing"
             THEN pc' = "cov_done" /\ result' = ErrorResult("Report not found")
             ELSE IF report = "malformed"
             THEN pc' = "cov_done" /\ result' = ErrorResult("Failed to parse the JaCoCo XML file")
             ELSE pc' = "cov_packages" /\ result' = result
    /\ UNCHANGED <<dashVars, covVars, tfVars, violations>>

\* for package in root.findall('package')
CovPackage ==
    /\ pc = "cov_packages"
    /\ Len(args.packages) < MaxPackages
    /\ \E package_name \in PackageNames :
          args' = [args EXCEPT !.packages = Append(@, [name |-> package_name, classes |-> <<>>])]
    /\ pc' = "cov_classes"
    /\ UNCHANGED <<result, dashVars, covVars, tfVars, violations>>

\* for class_elem in package.findall('class'): uncovered_lines = []
CovClass ==
    /\ pc = "cov_classes"
    /\ ClassesRead < MaxClasses
    /\ \E class_name \in ClassNames :
          args' = [args EXCEPT !.packages[Len(args.packages)].classes =
                                    Append(@, [name |-> class_name, lines |-> <<>>])]
    /\ uncovered_lines' = <<>>
    /\ pc' = "cov_lines"
    /\ UNCHANGED <<result, dashVars, missing_coverage, tfVars, violations>>

\* for line in class_elem.findall('sourcefile/line'): the line number is kept
\* when mi and nr are present, int(mi) > 0 and int(nr) is a number; a
\* ValueError of either conversion skips the line.
CovLine ==
    /\ pc = "cov_lines"
    /\ LinesRead < MaxLines
    /\ \E line \in LineElements :
          /\ args' = [args EXCEPT
                        !.packages[Len(args.packages)].classes[Len(CurrentPackage.classes)].lines =
                            Append(@, line)]
          /\ uncovered_lines' =
                IF line.mi # None /\ line.nr # None
                   /\ ParseInt(line.mi).ok /\ ParseInt(line.mi).v > 0 /\ ParseInt(line.nr).ok
                THEN Append(uncovered_lines, ParseInt(line.nr).v)
                ELSE uncovered_lines
    /\ UNCHANGED <<pc, result, dashVars, missing_coverage, tfVars, violations>>

\* if uncovered_lines: missing_coverage[full_class_name] = sorted(list(set(...))).
\* A package or class without a name attribute makes .replace / .split raise
\* AttributeError, which the outer handler turns into an error value.
CovEndClass ==
    /\ pc = "cov_lines"
    /\ IF uncovered_lines = <<>>
       THEN /\ pc' = "cov_classes"
            /\ UNCHANGED <<result, missing_coverage>>
       ELSE IF CurrentPackage.name = None \/ CurrentClass.name = None
       THEN /\ pc' = "cov_done"
            /\ result' = ErrorResult("An unexpected error occurred")
            /\ UNCHANGED missing_coverage
       ELSE /\ missing_coverage' =
                  DictSet(missing_coverage,
                          FullClassName(CurrentPackage.name, CurrentClass.name),
                          SortedSet(uncovered_lines))
            /\ pc' = "cov_classes"
            /\ UNCHANGED result
    /\ UNCHANGED <<args, dashVars, uncovered_lines, tfVars, violations>>

\* The classes of the package are exhausted
CovEndPackage ==
    /\ pc = "cov_classes"
    /\ pc' = "cov_packages"
    /\ UNCHANGED <<args, result, dashVars, covVars, tfVars, violations>>

\* if not missing_coverage: return {"status": "100% Coverage!"}; return missing_coverage
CovReturn ==
    /\ pc = "cov_packages"
    /\ result' = IF missing_coverage = <<>> THEN StatusResult("100% Coverage!")
                 ELSE [kind |-> "mapping", mapping |-> missing_coverage]
    /\ pc' = "cov_done"
    /\ UNCHANGED <<args, dashVars, covVars, tfVars, violations>>

----------------------------------------------------------------------------
(* get_test_failures *)

XmlSuffix == <<".", "x", "m", "l">>

\* s.endswith(suffix)
EndsWith(s, suffix) ==
    Len(s) >= Len(suffix) /\ SubSeq(s, Len(s) - Len(suffix) + 1, Len(s)) = suffix

\* text.strip()
Strip(text) ==
    LET inner == {i \in 1..Len(text) : text[i] \notin Whitespace}
    IN IF inner = {} THEN <<>>
       ELSE SubSeq(text, CHOOSE i \in inner : \A j \in inner : i <= j,
                         CHOOSE i \in inner : \A j \in inner : j <= i)

\* The project_path argument and what the file system holds for it: a regular
\* file of some name, or a project whose target/surefire-reports directory is
\* absent or holds some TEST-*.xml files and some other *.xml files
ProjectPaths ==
    [isfile : {TRUE},
     name : {<<"r", ".", "X", "M", "L">>, <<"r", ".", "x", "m", "l">>, <<"r", ".", "t", "x", "t">>},
     dir_exists : {FALSE}, test_files : {0}, other_files : {0}]
    \cup
    [isfile : {FALSE}, name : {<<"p">>}, dir_exists : {FALSE}, test_files : {0}, other_files : {0}]
    \cup
    {path \in [isfile : {FALSE}, name : {<<"p">>}, dir_exists : {TRUE},
               test_files : 0..MaxSuiteFiles, other_files : 0..1] :
        path.test_files + path.other_files <= MaxSuiteFiles}

FileName(kind, n) == [kind |-> kind, n |-> n]

\* glob.glob(os.path.join(report_dir, "TEST-*.xml"))
GlobTestFiles(path) == [i \in 1..path.test_files |-> FileName("TEST", i)]

\* glob.glob(os.path.join(report_dir, "*.xml")): the TEST-*.xml files match too
GlobXmlFiles(path) ==
    GlobTestFiles(path) \o [i \in 1..path.other_files |-> FileName("other", i)]

SuiteNames == {None, <<"S">>}

CaseClassNames == {None, <<>>, <<"A">>}

FailureTag == <<"f", "a", "i", "l", "u", "r", "e">>
ErrorTag == <<"e", "r", "r", "o", "r">>

\* The children of a <testcase> element
ChildElements ==
    { [tag |-> <<"f", "a", "i", "l", "u", "r", "e">>, message |-> <<"m">>, text |-> <<" ", "d", " ">>],
      [tag |-> <<"E", "R", "R", "O", "R">>, message |-> None, text |-> None],
      [tag |-> <<"s", "k", "i", "p", "p", "e", "d">>, message |-> None, text |-> None] }

RECURSIVE SeqsUpTo(_, _)
SeqsUpTo(S, n) ==
    IF n = 0 THEN {<<>>}
    ELSE LET shorter == SeqsUpTo(S, n - 1)
         IN shorter \cup {Append(t, c) : t \in shorter, c \in S}

\* The <testcase> elements with at most n children
TestcaseElements(n) ==
    [classname : CaseClassNames, name : {<<"t">>}, children : SeqsUpTo(ChildElements, n)]

\* a or b, on attribute values: None and the empty string are false
Or(a, b) == IF a # None /\ a # <<>> THEN a ELSE b

UnknownClass == <<"U", "n", "k", "n", "o", "w", "n">>

\* failures.setdefault(class_name, []).append(record), the dict kept as a
\* sequence of entries in insertion order
SetDefaultAppend(mapping, key, record) ==
    IF \E i \in 1..Len(mapping) : mapping[i].key = key
    THEN [i \in 1..Len(mapping) |->
            IF mapping[i].key = key
            THEN [key |-> key, records |-> Append(mapping[i].records, record)]
            ELSE mapping[i]]
    ELSE Append(mapping, [key |-> key, records |-> <<record>>])

\* for child in list(testcase): a record for each child tagged failure or error
RECURSIVE RecordChildren_firstOnly(_, _, _, _)
RecordChildren_firstOnly(mapping, class_name, test_name, children) ==
    IF children = <<>> THEN mapping
    ELSE LET child == Head(children)
             tag == Lower(child.tag)
         IN IF tag \in {FailureTag, ErrorTag}
            THEN SetDefaultAppend(mapping, class_name,
                                  [test |-> test_name, type |-> tag,
                                   message |-> Or(child.message, <<>>),
                                   details |-> IF child.text # None /\ child.text # <<>>
                                               THEN Strip(child.text) ELSE <<>>])
            ELSE RecordChildren_firstOnly(mapping, class_name, test_name, Tail(children))

RECURSIVE RecordChildren(_, _, _, _)
RecordChildren(mapping, class_name, test_name, children) ==
    IF children = <<>> THEN mapping
    ELSE LET child == Head(children)
             tag == Lower(child.tag)
             recorded ==
                IF tag \in {FailureTag, ErrorTag}
                THEN SetDefaultAppend(mapping, class_name,
                                      [test |-> test_name, type |-> tag,
                                       message |-> Or(child.message, <<>>),
                                       details |-> IF child.text # None /\ child.text # <<>>
                                                   THEN Strip(child.text) ELSE <<>>])
                ELSE mapping
         IN RecordChildren(recorded, class_name, test_name, Tail(children))

\* The report file being read: the last one of the documents read so far
CurrentSuite == args.suites[Len(args.suites)]

TestcasesRead == SumLens([i \in 1..Len(args.suites) |-> args.suites[i].testcases])

\* The number of children of the test cases read so far, over all report files
ChildrenRead ==
    SumLens([i \in 1..Len(args.suites) |->
                [j \in 1..SumLens([c \in 1..Len(args.suites[i].testcases) |->
                                      args.suites[i].testcases[c].children]) |-> 0]])

\* Entry: the report files are resolved from project_path
TfCall ==
    /\ pc = "idle"
    /\ \E path \in ProjectPaths :
          LET direct == path.isfile /\ EndsWith(Lower(path.name), XmlSuffix)
              globbed == IF GlobTestFiles(path) # <<>> THEN GlobTestFiles(path)
                         ELSE GlobXmlFiles(path)
              report_files == IF direct THEN <<FileName("path", 1)>> ELSE globbed
          IN /\ args' = [path |-> path, report_files |-> report_files, suites |-> <<>>]
             /\ IF ~direct /\ ~path.dir_exists
                THEN /\ pc' = "tf_done"
                     /\ result' = ErrorResult("Surefire reports directory not found")
                ELSE IF report_files = <<>>
                THEN /\ pc' = "tf_done"
                     /\ result' = ErrorResult("No test reports found in surefire-reports.")
                ELSE /\ pc' = "tf_files"
                     /\ result' = result
    /\ failures' = <<>>
    /\ skipped_files' = <<>>
    /\ UNCHANGED <<dashVars, covVars, violations>>

\* for report_file in report_files: ET.parse; a file that raises ParseError
\* or any other exception is appended to skipped_files
TfFile ==
    /\ pc = "tf_files"
    /\ Len(args.suites) < Len(args.report_files)
    /\ \E parse \in {"ok", "ParseError", "Exception"}, suite_name \in SuiteNames :
          /\ parse # "ok" => suite_name = None
          /\ args' = [args EXCEPT !.suites =
                        Append(@, [parse |-> parse, name |-> suite_name, testcases |-> <<>>])]
          /\ IF parse = "ok"
             THEN pc' = "tf_cases" /\ skipped_files' = skipped_files
             ELSE /\ pc' = "tf_files"
                  /\ skipped_files' = Append(skipped_files, args.report_files[Len(args.suites) + 1])
    /\ UNCHANGED <<result, dashVars, covVars, failures, violations>>

\* for testcase in root.findall('.//testcase'), with its loop over the children.
\* The documents read hold at most MaxCaseElements test cases and children in all.
TfTestcase ==
    /\ pc = "tf_cases"
    /\ TestcasesRead + ChildrenRead < MaxCaseElements
    /\ \E testcase \in TestcaseElements(MaxCaseElements - (TestcasesRead + ChildrenRead + 1)) :
          /\ args' = [args EXCEPT !.suites[Len(args.suites)].testcases = Append(@, testcase)]
          /\ failures' = RecordChildren(failures,
                                        Or(testcase.classname, Or(CurrentSuite.name, UnknownClass)),
                                        testcase.name, testcase.children)
    /\ UNCHANGED <<pc, result, dashVars, covVars, skipped_files, violations>>

\* The test cases of the file are exhausted
TfEndFile ==
    /\ pc = "tf_cases"
    /\ pc' = "tf_files"
    /\ UNCHANGED <<args, result, dashVars, covVars, tfVars, violations>>

\* After the loop: the status or the failures, with skipped_files when there are any
TfReturn ==
    /\ pc = "tf_files"
    /\ Len(args.suites) = Len(args.report_files)
    /\ result' = IF failures = <<>>
                 THEN [kind |-> "status", status |-> "All tests passed!", failures |-> <<>>,
                       has_skipped_files |-> skipped_files # <<>>,
                       skipped_files |-> skipped_files]
                 ELSE [kind |-> "failures", status |-> "", failures |-> failures,
                       has_skipped_files |-> skipped_files # <<>>,
                       skipped_files |-> skipped_files]
    /\ pc' = "tf_done"
    /\ UNCHANGED <<args, dashVars, covVars, tfVars, violations>>

----------------------------------------------------------------------------
(* run_pmd_analysis *)

\* violations[:20]
SummaryLimit == 20

\* seq[:n]
Take_all(seq, n) == seq

Take(seq, n) == SubSeq(seq, 1, IF Len(seq) < n THEN Len(seq) ELSE n)

PlainFileTag == "file"
NamespacedFileTag == "{http://pmd.sourceforge.net/report/2.0.0}file"

\* The tags a child of the report's root carries: root.findall('file') selects
\* the children whose tag is exactly 'file'
FileTags == {PlainFileTag, NamespacedFileTag}

\* The text of a <violation> element: None for an element without text
ViolationTexts == {None, <<" ", "d", " ">>}

\* The number of violation elements of the document read so far
ViolationsRead == SumLens([i \in 1..Len(args.files) |-> args.files[i].violations])

\* Entry: the build is run (a failure to start it is caught as an unexpected
\* error), then target/pmd.xml is looked up and parsed
PmdCall ==
    /\ pc = "idle"
    /\ \E outcome \in {"subprocess_raises", "no_report", "malformed", "parsed"} :
          /\ args' = [report |-> outcome, files |-> <<>>]
          /\ IF outcome = "subprocess_raises"
             THEN pc' = "pmd_done" /\ result' = ErrorResult("An unexpected error occurred")
             ELSE IF outcome = "no_report"
             THEN /\ pc' = "pmd_done"
                  /\ result' = ErrorResult("PMD ran but the pmd.xml report was not found.")
             ELSE IF outcome = "malformed"
             THEN pc' = "pmd_done" /\ result' = ErrorResult("Failed to parse pmd.xml report.")
             ELSE pc' = "pmd_files" /\ result' = result
    /\ violations' = <<>>
    /\ UNCHANGED <<dashVars, covVars, tfVars>>

\* The next child of the root. for file_elem in root.findall('file') visits it
\* when its tag is 'file'; a child of a namespaced tag is passed over, with the
\* violation elements it holds.
PmdFile ==
    /\ pc \in {"pmd_files", "pmd_violations"}
    /\ Len(args.files) < MaxPmdFiles
    /\ \E tag \in FileTags, hidden \in 0..1 :
          /\ tag = PlainFileTag => hidden = 0
          /\ ViolationsRead + hidden <= SummaryLimit + MaxExtraViolations
          /\ args' = [args EXCEPT !.files =
                        Append(@, [tag |-> tag, name |-> Len(args.files) + 1,
                                   violations |->
                                      [i \in 1..hidden |->
                                          [beginline |-> ViolationsRead + i,
                                           text |-> <<" ", "d", " ">>]]])]
          /\ pc' = IF tag = PlainFileTag THEN "pmd_violations" ELSE "pmd_files"
    /\ UNCHANGED <<result, dashVars, covVars, tfVars, violations>>

\* for violation in file_elem.findall('violation'): violations.append({...}).
\* violation.text.strip() raises AttributeError for an element without text,
\* which the outer handler turns into an error value.
PmdViolation ==
    /\ pc = "pmd_violations"
    /\ ViolationsRead < SummaryLimit + MaxExtraViolations
    /\ \E text \in ViolationTexts :
          /\ args' = [args EXCEPT !.files[Len(args.files)].violations =
                        Append(@, [beginline |-> ViolationsRead + 1, text |-> text])]
          /\ IF text = None
             THEN /\ pc' = "pmd_done"
                  /\ result' = ErrorResult("An unexpected error occurred")
                  /\ UNCHANGED violations
             ELSE /\ violations' =
                        Append(violations,
                               [file |-> args.files[Len(args.files)].name,
                                line |-> ViolationsRead + 1,
                                rule |-> "rule", priority |-> "3",
                                description |-> Strip(text)])
                  /\ UNCHANGED <<pc, result>>
    /\ UNCHANGED <<dashVars, covVars, tfVars>>

\* After the loops: the status alone, or the status with the total and the first 20
PmdReturn ==
    /\ pc \in {"pmd_files", "pmd_violations"}
    /\ result' = IF violations = <<>>
                 THEN StatusResult("PMD analysis passed. No violations found.")
                 ELSE [kind |-> "violations", total |-> Len(violations),
                       violations_summary |-> Take(violations, SummaryLimit)]
    /\ pc' = "pmd_done"
    /\ UNCHANGED <<args, dashVars, covVars, tfVars, violations>>

----------------------------------------------------------------------------
Init ==
    /\ pc = "idle"
    /\ args = <<>>
    /\ result = <<>>
    /\ total_tests = 0 /\ total_failures = 0 /\ total_errors = 0
    /\ total_skipped = 0 /\ total_passed = 0
    /\ line_coverage = 0 /\ branch_coverage = 0 /\ method_coverage = 0
    /\ missing_coverage = <<>> /\ uncovered_lines = <<>>
    /\ failures = <<>> /\ skipped_files = <<>>
    /\ violations = <<>>

NextBva ==
    \/ BvaCall

NextDashboard ==
    \/ DashCall
    \/ DashReportFile
    \/ DashEndFiles
    \/ DashJacoco
    \/ DashCounter
    \/ DashReturn

NextCoverage ==
    \/ CovCall
    \/ CovPackage
    \/ CovClass
    \/ CovLine
    \/ CovEndClass
    \/ CovEndPackage
    \/ CovReturn

NextTestFailures ==
    \/ TfCall
    \/ TfFile
    \/ TfTestcase
    \/ TfEndFile
    \/ TfReturn

NextPmd ==
    \/ PmdCall
    \/ PmdFile
    \/ PmdViolation
    \/ PmdReturn

Next ==
    \/ NextBva
    \/ NextDashboard
    \/ NextCoverage
    \/ NextTestFailures
    \/ NextPmd

\* One specification per tool: the tools share no state, so each is also
\* checked on its own
SpecBva == Init /\ [][NextBva]_vars
SpecDashboard == Init /\ [][NextDashboard]_vars
SpecCoverage == Init /\ [][NextCoverage]_vars
SpecTestFailures == Init /\ [][NextTestFailures]_vars
SpecPmd == Init /\ [][NextPmd]_vars

Spec == Init /\ [][Next]_vars

----------------------------------------------------------------------------
(* Properties of generate_bva_test_cases *)

\* param_name contains "default" in any mix of upper and lower case
IsDefaultName(name) ==
    \E i \in 1..(Len(name) - 6) :
        /\ name[i] \in {"d", "D"} /\ name[i + 1] \in {"e", "E"} /\ name[i + 2] \in {"f", "F"}
        /\ name[i + 3] \in {"a", "A"} /\ name[i + 4] \in {"u", "U"} /\ name[i + 5] \in {"l", "L"}
        /\ name[i + 6] \in {"t", "T"}

\* The whole-number tokens of a text: the maximal runs of digits that have no
\* letter, digit or underscore directly before or after them, as pairs <<first, last>>.
TokenSpans(text) ==
    {sp \in (1..Len(text)) \X (1..Len(text)) :
        /\ sp[1] <= sp[2]
        /\ \A m \in sp[1]..sp[2] : text[m] \in Digits
        /\ (sp[1] = 1 \/ text[sp[1] - 1] \in {" ", "-"})
        /\ (sp[2] = Len(text) \/ text[sp[2] + 1] \in {" ", "-"})}

Pow10(e) == CASE e = 0 -> 1 [] e = 1 -> 10 [] e = 2 -> 100 [] e = 3 -> 1000 [] e = 4 -> 10000

\* The number a span of digits denotes
RECURSIVE PlaceValueSum(_, _, _)
PlaceValueSum(text, first, last) ==
    IF first > last THEN 0
    ELSE DigitValue(text[first]) * Pow10(last - first) + PlaceValueSum(text, first + 1, last)

SpanValue(text, sp) == PlaceValueSum(text, sp[1], sp[2])

\* The k-th smallest element of a finite set of integers
KthSmallest(S, k) == CHOOSE x \in S : Cardinality({y \in S : y <= x}) = k

\* The tokens' values in text order
TokenValues(text) ==
    LET starts == {sp[1] : sp \in TokenSpans(text)}
    IN [k \in 1..Cardinality(starts) |->
            SpanValue(text, CHOOSE sp \in TokenSpans(text) : sp[1] = KthSmallest(starts, k))]

\* n-1, n, n+1 for each token n, in text order
Neighbours(text) ==
    LET t == TokenValues(text)
    IN [i \in 1..(3 * Len(t)) |-> IntV(t[((i - 1) \div 3) + 1] + ((i - 1) % 3) - 1)]

\* A sequence with every element that occurred earlier removed
FirstOccurrences(seq) ==
    LET keep == {i \in 1..Len(seq) : \A j \in 1..(i - 1) : seq[j] # seq[i]}
    IN [k \in 1..Cardinality(keep) |-> seq[KthSmallest(keep, k)]]

NoDuplicates(seq) == \A i, j \in 1..Len(seq) : i # j => seq[i] # seq[j]

IsIntCall ==
    /\ pc = "bva_done"
    /\ ~IsDefaultName(args.param_name)
    /\ args.param_type \in {"int", "long"}

\* C3: for a non-default int/long parameter the result is the base set
\* [0, 1, -1, 2147483647, -2147483648] followed by n-1, n, n+1 for each
\* whole-number token n of constraints in text order, duplicates removed, every
\* value at its first-occurrence position; each n-1, n, n+1 occurs exactly once.
C3_IntBoundaries ==
    IsIntCall =>
        LET tokens == TokenValues(args.constraints)
        IN /\ result = FirstOccurrences(IntBase \o Neighbours(args.constraints))
           /\ NoDuplicates(result)
           /\ \A i \in 1..Len(tokens) :
                 \A d \in {-1, 0, 1} :
                    Cardinality({j \in 1..Len(result) : result[j] = IntV(tokens[i] + d)}) = 1

\* An int call whose constraints hold two tokens, one of them overlapping the base set
C3_Witness ==
    /\ IsIntCall
    /\ Len(TokenValues(args.constraints)) = 2
    /\ Len(result) > 5
    /\ Len(result) < 5 + 6

\* C4: a param_name containing "default" (any case) gives exactly [0, 1, -1],
\* whatever the type, the function name and the constraints are.
C4_DefaultPrecedence ==
    (pc = "bva_done" /\ IsDefaultName(args.param_name)) =>
        result = <<IntV(0), IntV(1), IntV(-1)>>

\* A default-named String parameter of a parse function, with a number in constraints
C4_Witness ==
    /\ pc = "bva_done"
    /\ IsDefaultName(args.param_name)
    /\ args.param_name # Lower(args.param_name)
    /\ args.param_type = "String"
    /\ args.function_name = <<"P", "a", "r", "s", "e">>
    /\ TokenSpans(args.constraints) # {}
    /\ result = <<IntV(0), IntV(1), IntV(-1)>>

\* C5: a non-default boolean parameter gives exactly [true, false], whatever
\* the constraints text is.
C5_BooleanTerminal ==
    (pc = "bva_done" /\ ~IsDefaultName(args.param_name) /\ args.param_type = "boolean") =>
        result = <<BoolV(TRUE), BoolV(FALSE)>>

\* A boolean call whose constraints hold a number
C5_Witness ==
    /\ pc = "bva_done"
    /\ ~IsDefaultName(args.param_name)
    /\ args.param_type = "boolean"
    /\ TokenSpans(args.constraints) # {}
    /\ result = <<BoolV(TRUE), BoolV(FALSE)>>

----------------------------------------------------------------------------
(* Properties of get_quality_dashboard *)

DashboardReturned == pc = "dash_done"

\* C1: in every returned test_run_summary,
\* passed + failures + errors + skipped = total_tests.
C1_CountsAddUp ==
    DashboardReturned =>
        LET t == result.test_run_summary
        IN t.passed + t.failures + t.errors + t.skipped = t.total_tests

\* Two report files read, with failures and errors summing to more than the tests
C1_Witness ==
    /\ DashboardReturned
    /\ args.files = 2
    /\ result.test_run_summary.total_tests = 1
    /\ result.test_run_summary.failures = 2
    /\ result.test_run_summary.errors = 1
    /\ result.test_run_summary.skipped = -1
    /\ result.test_run_summary.passed = -1

\* C2: the aggregated counts are never negative; in particular passed is
\* clamped at 0 when the summed failures + errors + skipped exceed the summed
\* tests (the sums themselves being non-negative here).
C2_PassedNeverNegative ==
    (/\ DashboardReturned
     /\ result.test_run_summary.total_tests >= 0
     /\ result.test_run_summary.failures >= 0
     /\ result.test_run_summary.errors >= 0
     /\ result.test_run_summary.skipped >= 0)
    => result.test_run_summary.passed >= 0

\* C6: every coverage percentage of a returned dashboard lies in [0, 100]
\* (0..10000 hundredths of a percent).
C6_PercentInRange ==
    DashboardReturned =>
        /\ result.code_coverage_summary.line_coverage_percent \in 0..10000
        /\ result.code_coverage_summary.branch_coverage_percent \in 0..10000
        /\ result.code_coverage_summary.method_coverage_percent \in 0..10000

----------------------------------------------------------------------------
(* Properties of get_missing_coverage *)

\* The class elements of the document, as <<package index, class index>>
ClassElements ==
    {pos \in (1..Len(args.packages)) \X (1..MaxClasses + 1) :
        pos[2] <= Len(args.packages[pos[1]].classes)}

IsWholeNumber(a) ==
    /\ a # None
    /\ a # <<>>
    /\ \A i \in 1..Len(a) : a[i] \in Digits \/ (i = 1 /\ Len(a) > 1 /\ a[i] \in {"-", "+"})

\* The line numbers of a class element's lines that have an integer mi > 0 and an integer nr
QualifyingLines(pos) ==
    LET lines == args.packages[pos[1]].classes[pos[2]].lines
    IN {ParseInt(lines[i].nr).v : i \in {j \in 1..Len(lines) :
            /\ IsWholeNumber(lines[j].mi)
            /\ IsWholeNumber(lines[j].nr)
            /\ lines[j].mi \notin {<<"0">>, <<"-", "1">>}}}

\* The entries the returned mapping holds for a class element: those keyed by
\* its qualified name (none when the result is no mapping or a name is absent)
EntriesOf(pos) ==
    LET package_name == args.packages[pos[1]].name
        class_name == args.packages[pos[1]].classes[pos[2]].name
    IN IF result.kind # "mapping" \/ package_name = None \/ class_name = None
       THEN {}
       ELSE {i \in 1..Len(result.mapping) :
                result.mapping[i].key = FullClassName(package_name, class_name)}

IsAscending(seq) == \A i \in 1..(Len(seq) - 1) : seq[i] < seq[i + 1]

\* C7: for a parseable report the returned mapping has a class as a key iff one
\* of its lines has an integer mi > 0 and an integer nr, and the class's value is
\* exactly its qualifying line numbers, strictly ascending.
C7_UncoveredLinesPerClass ==
    (pc = "cov_done" /\ args.report = "parsed") =>
        \A pos \in ClassElements :
            /\ (QualifyingLines(pos) # {}) <=> (EntriesOf(pos) # {})
            /\ \A i \in EntriesOf(pos) :
                  /\ Range(result.mapping[i].lines) = QualifyingLines(pos)
                  /\ IsAscending(result.mapping[i].lines)

----------------------------------------------------------------------------
(* Properties of get_test_failures *)

\* The test cases of the parsed reports, as <<file index, case index>>
CasePositions ==
    {pos \in (1..Len(args.suites)) \X (1..MaxCaseElements) :
        pos[2] <= Len(args.suites[pos[1]].testcases)}

CaseAt(pos) == args.suites[pos[1]].testcases[pos[2]]

SameIgnoringCase(a, b) ==
    Len(a) = Len(b) /\ \A i \in 1..Len(a) : LowerChar(a[i]) = LowerChar(b[i])

IsFailureOrError(child) ==
    SameIgnoringCase(child.tag, FailureTag) \/ SameIgnoringCase(child.tag, ErrorTag)

\* The failure and error children of a test case, by index
FailingChildren(pos) ==
    {c \in 1..Len(CaseAt(pos).children) : IsFailureOrError(CaseAt(pos).children[c])}

Present(a) == a # None /\ a # <<>>

\* The class a test case is filed under: its classname, else the suite's name, else 'Unknown'
ClassOf(pos) ==
    IF Present(CaseAt(pos).classname) THEN CaseAt(pos).classname
    ELSE IF Present(args.suites[pos[1]].name) THEN args.suites[pos[1]].name
    ELSE UnknownClass

ClassKeys == {<<"A">>, <<"S">>, UnknownClass}

\* The records filed under a class in the failures collected
RecordsUnder(key) ==
    IF \E i \in 1..Len(failures) : failures[i].key = key
    THEN failures[CHOOSE i \in 1..Len(failures) : failures[i].key = key].records
    ELSE <<>>

TestFailuresFinished == pc = "tf_done" /\ result.kind \in {"status", "failures"}

\* C8 as stated: every test case with a failure or error child yields exactly
\* one record under its class, and a test case without one yields none, so a
\* class holds as many records as it has test cases with such a child.
C8_OneRecordPerFailingCase ==
    TestFailuresFinished =>
        \A key \in ClassKeys :
            Len(RecordsUnder(key)) =
                Cardinality({pos \in CasePositions :
                                ClassOf(pos) = key /\ FailingChildren(pos) # {}})

\* The failure and error children of the cases of a class, as <<file, case, child>>
FailingChildrenOf(key) ==
    {cp \in CasePositions \X (1..MaxCaseElements) :
        /\ ClassOf(cp[1]) = key
        /\ cp[2] \in FailingChildren(cp[1])}

\* Document order of children
Before(a, b) ==
    \/ a[1][1] < b[1][1]
    \/ a[1][1] = b[1][1] /\ a[1][2] < b[1][2]
    \/ a[1] = b[1] /\ a[2] < b[2]

\* C8 as amended: every failure or error child of every test case of a parsed
\* report yields exactly one record, in document order, whose type is the
\* child's tag lower-cased, filed under the case's class; a class with no such
\* child has no records, and the result lists exactly the failures collected.
C8_OneRecordPerFailingChild ==
    TestFailuresFinished =>
        /\ result.failures = failures
        /\ \A i \in 1..Len(failures) : failures[i].key \in ClassKeys
        /\ \A key \in ClassKeys :
              LET children == FailingChildrenOf(key)
                  records == RecordsUnder(key)
              IN /\ Len(records) = Cardinality(children)
                 /\ \A cp \in children :
                       LET rank == Cardinality({other \in children : Before(other, cp)}) + 1
                           child == CaseAt(cp[1]).children[cp[2]]
                       IN /\ SameIgnoringCase(records[rank].type, child.tag)
                          /\ records[rank].type \in {FailureTag, ErrorTag}
                          /\ records[rank].test = CaseAt(cp[1]).name

\* A test case without a classname whose children are a failure, a skipped and
\* an ERROR element: two records under the suite's name
C8_Witness ==
    /\ TestFailuresFinished
    /\ \E pos \in CasePositions :
          /\ Len(CaseAt(pos).children) = 3
          /\ FailingChildren(pos) = {1, 3}
          /\ ~Present(CaseAt(pos).classname)
          /\ ClassOf(pos) = <<"S">>
          /\ Len(RecordsUnder(<<"S">>)) = 2
          /\ RecordsUnder(<<"S">>)[1].type = FailureTag
          /\ RecordsUnder(<<"S">>)[2].type = ErrorTag

----------------------------------------------------------------------------
(* Properties of run_pmd_analysis *)

\* The violation elements of the whole document, in document order
RECURSIVE Flatten(_)
Flatten(seqs) == IF seqs = <<>> THEN <<>> ELSE Head(seqs) \o Flatten(Tail(seqs))

DocumentViolations == Flatten([i \in 1..Len(args.files) |-> args.files[i].violations])

\* C9: for a parseable report with at least one violation the result states the
\* number of violation elements of the whole document, and violations_summary
\* is the first min(20, total) of them in document order.
C9_TrueTotalAndFirst20 ==
    (pc = "pmd_done" /\ args.report = "parsed" /\ DocumentViolations # <<>>) =>
        /\ result.kind = "violations"
        /\ result.total = Len(DocumentViolations)
        /\ Len(result.violations_summary) =
              (IF Len(DocumentViolations) < 20 THEN Len(DocumentViolations) ELSE 20)
        /\ \A i \in 1..Len(result.violations_summary) :
              result.violations_summary[i].line = DocumentViolations[i].beginline

----------------------------------------------------------------------------
(* Properties of all report-reading tools *)

ReportToolFinished ==
    pc \in {"dash_done", "dash_raised", "cov_done", "tf_done", "pmd_done"}

\* C10: no report-reading tool ends with a raised exception; every call
\* returns a result value.
C10_NeverRaises ==
    ReportToolFinished => result.kind # "raised"

----------------------------------------------------------------------------
(* Properties of the status of get_test_failures *)

\* The call returned {"status": "All tests passed!"}, with or without skipped_files
AllTestsPassedReturned ==
    pc = "tf_done" /\ result.kind = "status" /\ result.status = "All tests passed!"

\* The report files of the call that ET.parse read without an exception
ParsedFiles ==
    {i \in 1..Len(args.suites) : args.suites[i].parse = "ok"}

\* C11: whenever get_test_failures returns the status 'All tests passed!', at
\* least one report file was parsed successfully; a batch in which every file
\* was skipped as unparsable gives another result.
C11_PassedMeansChecked ==
    AllTestsPassedReturned => ParsedFiles # {}

\* A missing surefire-reports directory and a directory with no report file
\* return an error, never the status
NothingToReadGivesError ==
    (pc = "tf_done" /\ args.report_files = <<>>) => result.kind = "error"

====
